---- MODULE Spec2Model ----
(***************************************************************************)
(* Model of src/app.py: the mass-spring-damper simulator simulate_bridge,  *)
(* the metrics extractor get_metrics and the holmes_feedback classifier.   *)
(*                                                                         *)
(* Numbers.  Positions, velocities and control samples are fixed-point     *)
(* integers in units of 1/Scale; every product or quotient is rounded to   *)
(* the nearest unit, as a float operation rounds to the nearest float.     *)
(* Parameters (m, c, k, Kp, dt) and derived ratios are rationals           *)
(* <<num, den>>.  A rational with den = 0 is the IEEE result of a numpy    *)
(* division by zero: num > 0 is +inf, num < 0 is -inf, num = 0 is nan.     *)
(* Arrays are functions over 0..n-1, indexed as in the source.             *)
(***************************************************************************)
EXTENDS Integers, Sequences, FiniteSets, TLC

VARIABLES pc, error,
          m, c, k, Kp, x_target, t_max, dt,
          n_steps, t, x, v, u, i,
          x_arr, t_arr, target, max_val, overshoot, tol, settling_time,
          os_true, ts_true, u_cost, holmes_feedback

simVars == <<m, c, k, Kp, x_target, t_max, dt, n_steps, t, x, v, u>>
metVars == <<x_arr, t_arr, target, max_val, overshoot, tol, settling_time>>
fbVars  == <<os_true, ts_true, u_cost, holmes_feedback>>
vars    == <<pc, error, i, simVars, metVars, fbVars>>

----------------------------------------------------------------------------
(* Bounds of the model *)

MaxTMax == 5
MaxLen  == 3

(* Defaults of the program *)

TMaxDefault == 15

----------------------------------------------------------------------------
(* Arithmetic *)

Scale == 10 ^ 6

Abs(a) == IF a < 0 THEN -a ELSE a

Sign(a) == IF a < 0 THEN -1 ELSE IF a > 0 THEN 1 ELSE 0

\* a / d rounded to the nearest integer, d > 0
RoundDiv(a, d) == (2 * a + d) \div (2 * d)

\* the fixed-point value a times the rational q (q[2] > 0)
MulQ(a, q) == RoundDiv(a * q[1], q[2])

\* the fixed-point value a divided by the rational q (q[1] # 0)
DivQ(a, q) == IF q[1] > 0 THEN RoundDiv(a * q[2], q[1])
                          ELSE RoundDiv((-a) * q[2], -q[1])

\* Python's int(a / b) of a real quotient: truncation toward zero (b # 0)
TruncDiv(a, b) == Sign(a) * Sign(b) * (Abs(a) \div Abs(b))

\* r > 0 for a rational or IEEE special r = <<num, den>>
RatPositive(r) == IF r[2] < 0 THEN r[1] < 0 ELSE r[1] > 0

\* r > n for a finite or infinite r and an integer n
RatGtInt(r, n) == IF r[2] > 0 THEN r[1] > n * r[2]
                  ELSE IF r[2] < 0 THEN r[1] < n * r[2]
                  ELSE r[1] > 0

\* r < n for a finite or infinite r and an integer n
RatLtInt(r, n) == IF r[2] > 0 THEN r[1] < n * r[2]
                  ELSE IF r[2] < 0 THEN r[1] > n * r[2]
                  ELSE r[1] < 0

Len0(f) == Cardinality(DOMAIN f)

----------------------------------------------------------------------------
(* simulate_bridge *)

\* np.zeros(n)
Zeros(n) == [j \in 0 .. n - 1 |-> 0]

\* np.linspace(0, t_max, n): n samples from 0 to t_max, both ends included
Linspace(tm, n) == [j \in 0 .. n - 1 |-> IF n = 1 THEN <<0, 1>> ELSE <<j * tm, n - 1>>]

NStepsOffByOne(tm, d) == TruncDiv(tm * d[2], d[1]) + 1

\* n_steps = int(t_max / dt)
NSteps(tm, d) == TruncDiv(tm * d[2], d[1])

UInitGarbage(n) == [j \in 0 .. n - 1 |-> Scale]

\* u = np.zeros(n_steps)
UInit(n) == Zeros(n)

ControlLawNoGain(gain, xt, xi) == xt - xi

\* u[i] = Kp * (x_target - x[i])
ControlLaw(gain, xt, xi) == MulQ(xt - xi, gain)

\* a = (-c * v[i] - k * x[i] + u[i]) / m
Accel(mass, damp, stiff, xi, vi, ui) ==
    DivQ(- MulQ(vi, damp) - MulQ(xi, stiff) + ui, mass)

\* v[i+1] = v[i] + a * dt
VelocityUpdate(vi, a, d) == vi + MulQ(a, d)

PositionUpdateNewVelocity(xi, vi, vnext, d) == xi + MulQ(vnext, d)

\* x[i+1] = x[i] + v[i] * dt
PositionUpdate(xi, vi, vnext, d) == xi + MulQ(vi, d)

\* line 99 raises: float division by zero, or a negative sample count
\* handed to np.linspace
SimRaise ==
    /\ pc = "sim_entry"
    /\ \/ dt[1] = 0 /\ error' = "ZeroDivisionError"
       \/ dt[1] # 0 /\ NSteps(t_max, dt) < 0 /\ error' = "ValueError"
    /\ pc' = "sim_raised"
    /\ UNCHANGED <<i, simVars, metVars, fbVars>>

\* lines 99-104: the step count, the time grid and the zeroed arrays
SimEntry ==
    /\ pc = "sim_entry"
    /\ dt[1] # 0
    /\ NSteps(t_max, dt) >= 0
    /\ n_steps' = NSteps(t_max, dt)
    /\ t' = Linspace(t_max, n_steps')
    /\ x' = Zeros(n_steps')
    /\ v' = Zeros(n_steps')
    /\ u' = UInit(n_steps')
    /\ i' = 0
    /\ pc' = "sim_loop"
    /\ UNCHANGED <<error, m, c, k, Kp, x_target, t_max, dt, metVars, fbVars>>

\* lines 107-110: the loop body at index j on the arrays st.x, st.v, st.u
LoopBody(st, j, mass, damp, stiff, gain, xt, d) ==
    LET ui == ControlLaw(gain, xt, st.x[j])
        a  == Accel(mass, damp, stiff, st.x[j], st.v[j], ui)
        vn == VelocityUpdate(st.v[j], a, d)
    IN  [u |-> [st.u EXCEPT ![j] = ui],
         v |-> [st.v EXCEPT ![j + 1] = vn],
         x |-> [st.x EXCEPT ![j + 1] = PositionUpdate(st.x[j], st.v[j], vn, d)]]

\* lines 106-110: one iteration of the loop over range(n_steps - 1)
SimStep ==
    /\ pc = "sim_loop"
    /\ i < n_steps - 1
    /\ LET st == LoopBody([x |-> x, v |-> v, u |-> u], i, m, c, k, Kp,
                          x_target, dt)
       IN  x' = st.x /\ v' = st.v /\ u' = st.u
    /\ i' = i + 1
    /\ UNCHANGED <<pc, error, m, c, k, Kp, x_target, t_max, dt, n_steps, t,
                   metVars, fbVars>>

\* line 112: return t, x, u
SimReturn ==
    /\ pc = "sim_loop"
    /\ i >= n_steps - 1
    /\ pc' = "sim_returned"
    /\ UNCHANGED <<error, i, simVars, metVars, fbVars>>

----------------------------------------------------------------------------
(* Idle values of the variables an operation does not use *)

SimIdle ==
    /\ m = <<1, 1>> /\ c = <<0, 1>> /\ k = <<1, 1>> /\ Kp = <<0, 1>>
    /\ x_target = 0 /\ t_max = 0 /\ dt = <<1, 1>>
    /\ n_steps = 0 /\ t = <<>> /\ x = <<>> /\ v = <<>> /\ u = <<>>

MetIdle ==
    /\ x_arr = <<>> /\ t_arr = <<>> /\ target = 0 /\ max_val = 0
    /\ overshoot = <<0, 1>> /\ tol = 0 /\ settling_time = <<0, 1>>

FbIdle ==
    /\ os_true = <<0, 1>> /\ ts_true = <<0, 1>> /\ u_cost = 0
    /\ holmes_feedback = <<>>

----------------------------------------------------------------------------
(* The simulator on its own, over valid and invalid parameters *)

Half == <<1, 2>>

\* plants and gains within the documented domain, on every grid
\* 1..MaxTMax x dt (the degenerate grids with dt >= t_max included)
GridInputs ==
    [m : {<<1, 1>>, <<2, 1>>}, c : {<<0, 1>>, <<1, 1>>},
     k : {<<1, 1>>, <<2, 1>>}, Kp : {<<0, 1>>, <<1, 1>>, <<2, 1>>},
     x_target : {-Scale, Scale},
     t_max : 1 .. MaxTMax, dt : {Half, <<1, 1>>, <<2, 1>>}]

BaseInput ==
    [m |-> <<1, 1>>, c |-> <<1, 1>>, k |-> <<1, 1>>, Kp |-> <<1, 1>>,
     x_target |-> Scale, t_max |-> 2, dt |-> <<1, 1>>]

\* one parameter outside the documented domain at a time
InvalidInputs ==
    {[BaseInput EXCEPT !.m = <<-1, 1>>],
     [BaseInput EXCEPT !.c = <<-1, 1>>],
     [BaseInput EXCEPT !.k = <<0, 1>>],
     [BaseInput EXCEPT !.k = <<-1, 1>>],
     [BaseInput EXCEPT !.t_max = 0],
     [BaseInput EXCEPT !.t_max = -1],
     [BaseInput EXCEPT !.dt = <<0, 1>>],
     [BaseInput EXCEPT !.dt = <<-1, 1>>]}

InitSim ==
    /\ pc = "sim_entry" /\ error = "" /\ i = 0
    /\ \E p \in GridInputs \cup InvalidInputs :
          /\ m = p.m /\ c = p.c /\ k = p.k /\ Kp = p.Kp
          /\ x_target = p.x_target /\ t_max = p.t_max /\ dt = p.dt
    /\ n_steps = 0 /\ t = <<>> /\ x = <<>> /\ v = <<>> /\ u = <<>>
    /\ MetIdle /\ FbIdle

NextSim == SimRaise \/ SimEntry \/ SimStep \/ SimReturn

SpecSim == InitSim /\ [][NextSim]_vars

----------------------------------------------------------------------------
(* get_metrics *)

\* np.max(x_arr)
MaxOf(arr) == CHOOSE a \in {arr[j] : j \in DOMAIN arr} :
                  \A j \in DOMAIN arr : a >= arr[j]

NoClamp(r) == r

\* max(0, r): r when r > 0 holds, and the first argument 0 otherwise
\* (also for r = nan and r = -inf)
ClampZero(r) == IF RatPositive(r) THEN r ELSE <<0, 1>>

\* overshoot = max(0, (max_val - target) / target) * 100
Overshoot(mv, tg) == LET r == ClampZero(<<mv - tg, tg>>)
                     IN  <<r[1] * 100, r[2]>>

\* tol = 0.05 * target
Tol(tg) == MulQ(tg, <<5, 100>>)

\* abs(x_arr[i] - target) > tol
OutOfBand(xi, tg, band) == Abs(xi - tg) > band

\* lines 121-124: the peak, the overshoot, the band and the default result
MetricsEntry ==
    /\ pc = "metrics_entry"
    /\ max_val' = MaxOf(x_arr)
    /\ overshoot' = Overshoot(max_val', target)
    /\ tol' = Tol(target)
    /\ settling_time' = t_arr[Len0(t_arr) - 1]
    /\ i' = Len0(x_arr) - 1
    /\ pc' = "metrics_loop"
    /\ UNCHANGED <<error, simVars, x_arr, t_arr, target, fbVars>>

\* lines 125-129: one test of the loop over range(len(x_arr) - 1, 0, -1);
\* the loop's end and the break both go on to the return of line 129
MetricsLoop ==
    /\ pc = "metrics_loop"
    /\ IF i < 1
         THEN /\ pc' = "metrics_returned"
              /\ UNCHANGED <<i, settling_time>>
         ELSE IF OutOfBand(x_arr[i], target, tol)
                THEN /\ settling_time' = t_arr[i]
                     /\ pc' = "metrics_returned"
                     /\ UNCHANGED i
                ELSE /\ i' = i - 1
                     /\ UNCHANGED <<pc, settling_time>>
    /\ UNCHANGED <<error, simVars, x_arr, t_arr, target, max_val, overshoot,
                   tol, fbVars>>

----------------------------------------------------------------------------
(* The metrics extractor on its own, over arbitrary trajectories *)

XVals == {-2 * Scale, 0, (94 * Scale) \div 100, (96 * Scale) \div 100,
          Scale, (3 * Scale) \div 2}

TargetVals == {-Scale, 0, Scale, 2 * Scale}

InitMetrics ==
    /\ pc = "metrics_entry" /\ error = "" /\ i = 0
    /\ SimIdle
    /\ \E n \in 1 .. MaxLen :
          /\ x_arr \in [0 .. n - 1 -> XVals]
          /\ t_arr = Linspace(TMaxDefault, n)
    /\ target \in TargetVals
    /\ max_val = 0 /\ overshoot = <<0, 1>> /\ tol = 0
    /\ settling_time = <<0, 1>>
    /\ FbIdle

NextMetrics == MetricsEntry \/ MetricsLoop

SpecMetrics == InitMetrics /\ [][NextMetrics]_vars

----------------------------------------------------------------------------
(* holmes_feedback *)

OvershootLimit == 30
SettlingLimit  == 10
CostLimit      == 500
EleganceLimit  == 15

Turbulence == [title |-> "TURBULENCE WARNING", type |-> "error"]
CarStuck   == [title |-> "CAR STUCK ON THE HILL", type |-> "warning"]
Budget     == [title |-> "BUDGET OVERLOAD", type |-> "warning"]
Elegant    == [title |-> "ELEGANT SOLUTION", type |-> "success"]

\* if os_true > 30.0
IsSevere(osv) == RatGtInt(osv, OvershootLimit)

IfSluggish(osv, tsv) == RatGtInt(tsv, SettlingLimit)

\* elif ts_true > 10.0
ElifSluggish(osv, tsv) == ~ IsSevere(osv) /\ RatGtInt(tsv, SettlingLimit)

\* if u_cost > 500
IsOverBudget(cost) == cost > CostLimit * Scale

\* if not holmes_feedback and os_true < 15.0
IsElegant(fb, osv) == fb = <<>> /\ RatLtInt(osv, EleganceLimit)

\* lines 140-157: the if / elif pair
FeedbackOscillation ==
    /\ pc = "fb_oscillation"
    /\ LET fb1 == IF IsSevere(os_true)
                    THEN Append(holmes_feedback, Turbulence)
                    ELSE holmes_feedback
       IN holmes_feedback' = IF ElifSluggish(os_true, ts_true)
                               THEN Append(fb1, CarStuck)
                               ELSE fb1
    /\ pc' = "fb_cost"
    /\ UNCHANGED <<error, i, simVars, metVars, os_true, ts_true, u_cost>>

\* lines 160-166
FeedbackCost ==
    /\ pc = "fb_cost"
    /\ holmes_feedback' = IF IsOverBudget(u_cost)
                            THEN Append(holmes_feedback, Budget)
                            ELSE holmes_feedback
    /\ pc' = "fb_success"
    /\ UNCHANGED <<error, i, simVars, metVars, os_true, ts_true, u_cost>>

\* lines 169-176
FeedbackSuccess ==
    /\ pc = "fb_success"
    /\ holmes_feedback' = IF IsElegant(holmes_feedback, os_true)
                            THEN Append(holmes_feedback, Elegant)
                            ELSE holmes_feedback
    /\ pc' = "fb_done"
    /\ UNCHANGED <<error, i, simVars, metVars, os_true, ts_true, u_cost>>

OsVals == {<<0, 1>>, <<5, 1>>, <<149, 10>>, <<15, 1>>, <<30, 1>>,
           <<301, 10>>, <<35, 1>>}

TsVals == {<<2, 1>>, <<10, 1>>, <<101, 10>>, <<15, 1>>}

CostVals == {50 * Scale, 100 * Scale, 500 * Scale, 500 * Scale + 1,
             600 * Scale}

InitFeedback ==
    /\ pc = "fb_oscillation" /\ error = "" /\ i = 0
    /\ SimIdle /\ MetIdle
    /\ os_true \in OsVals /\ ts_true \in TsVals /\ u_cost \in CostVals
    /\ holmes_feedback = <<>>

NextFeedback == FeedbackOscillation \/ FeedbackCost \/ FeedbackSuccess

SpecFeedback == InitFeedback /\ [][NextFeedback]_vars

----------------------------------------------------------------------------
(* The application in its calibration mode (File A: alpha_m = alpha_c = 1) *)
(* at every position of the gain slider: the simulation of the plant on    *)
(* the default grid, then the metrics of the simulated trajectory          *)

RECURSIVE LoopRange(_, _, _, _, _, _, _, _, _)
\* lines 106-110: the iterations lo .. hi - 1 of the loop, in order.  The
\* range is halved and the first half is evaluated (its arrays have the shape
\* of st's) before the second half starts, so that the evaluation nests only
\* log2(hi - lo) deep.
LoopRange(st, lo, hi, mass, damp, stiff, gain, xt, d) ==
    IF lo >= hi THEN st
    ELSE IF hi = lo + 1 THEN LoopBody(st, lo, mass, damp, stiff, gain, xt, d)
    ELSE LET mid   == (lo + hi) \div 2
             first == LoopRange(st, lo, mid, mass, damp, stiff, gain, xt, d)
         IN  IF DOMAIN first.x = DOMAIN st.x
               THEN LoopRange(first, mid, hi, mass, damp, stiff, gain, xt, d)
               ELSE first

\* line 39: the slider runs from 0.0 to 50.0 in steps of 1.0
KpSliderMax == 50

\* line 115: x_true = simulate_bridge(m_true, c_true, k_nom, Kp, x_ref) on
\* the default grid, lines 99-112 run to their return
AppSimulate ==
    /\ pc = "app_simulate"
    /\ n_steps' = NSteps(t_max, dt)
    /\ t' = Linspace(t_max, n_steps')
    /\ LET st == LoopRange([x |-> Zeros(n_steps'), v |-> Zeros(n_steps'),
                            u |-> UInit(n_steps')],
                           0, n_steps' - 1, m, c, k, Kp, x_target, dt)
       IN  x' = st.x /\ v' = st.v /\ u' = st.u
    /\ i' = n_steps' - 1
    /\ pc' = "sim_returned"
    /\ UNCHANGED <<error, m, c, k, Kp, x_target, t_max, dt, metVars, fbVars>>

\* line 131: get_metrics(x_true, t, x_ref)
AppGetMetrics ==
    /\ pc = "sim_returned"
    /\ x_arr' = x /\ t_arr' = t /\ target' = x_target
    /\ pc' = "metrics_entry"
    /\ UNCHANGED <<error, i, simVars, max_val, overshoot, tol, settling_time,
                   fbVars>>

\* line 58: m_nom, c_nom, k_nom, x_ref = 2.0, 0.8, 10.0, 1.0; line 98:
\* t_max = 15.0, dt = 0.01
InitApp ==
    /\ pc = "app_simulate" /\ error = "" /\ i = 0
    /\ m = <<2, 1>> /\ c = <<4, 5>> /\ k = <<10, 1>>
    /\ \E g \in 0 .. KpSliderMax : Kp = <<g, 1>>
    /\ x_target = Scale /\ t_max = TMaxDefault /\ dt = <<1, 100>>
    /\ n_steps = 0 /\ t = <<>> /\ x = <<>> /\ v = <<>> /\ u = <<>>
    /\ MetIdle /\ FbIdle

NextApp == AppSimulate \/ AppGetMetrics \/ MetricsEntry \/ MetricsLoop

SpecApp == InitApp /\ [][NextApp]_vars

----------------------------------------------------------------------------
(* Properties of simulate_bridge, checked under SpecSim *)

\* the simulator is in or past its loop
InSim == pc \in {"sim_loop", "sim_returned"}

\* the documented domain: m > 0, c >= 0, k > 0, t_max > 0, dt > 0, dt < t_max
ValidParameters(mass, damp, stiff, tm, d) ==
    /\ mass[1] > 0 /\ damp[1] >= 0 /\ stiff[1] > 0
    /\ tm > 0 /\ d[1] > 0 /\ d[1] < tm * d[2]

\* C1: for valid parameters (m > 0, c >= 0, k > 0, Kp >= 0, t_max > dt > 0)
\* the returned t, x and u have the same length n, n is floor(t_max / dt)
\* (n * dt <= t_max < (n + 1) * dt), and the run starts at rest:
\* x[0] = 0 and v[0] = 0.
C1_EqualLengthsAtRest ==
    (pc = "sim_returned" /\ ValidParameters(m, c, k, t_max, dt) /\ Kp[1] >= 0) =>
        /\ DOMAIN t = DOMAIN x /\ DOMAIN x = DOMAIN u
        /\ DOMAIN x = 0 .. Len0(x) - 1
        /\ Len0(x) * dt[1] <= t_max * dt[2]
        /\ t_max * dt[2] < (Len0(x) + 1) * dt[1]
        /\ x[0] = 0 /\ v[0] = 0

\* a valid run has returned at least two samples on a grid where t_max / dt
\* is not an integer
C1_Witness ==
    /\ pc = "sim_returned" /\ ValidParameters(m, c, k, t_max, dt)
    /\ Len0(x) >= 2
    /\ (t_max * dt[2]) % dt[1] # 0

\* C2: simulate with invalid parameters (m <= 0, c < 0, k <= 0, t_max <= 0,
\* dt <= 0 or dt >= t_max) never returns a trajectory: whenever the
\* simulator has returned, its parameters were valid.
C2_InvalidParametersNeverReturn ==
    pc = "sim_returned" => ValidParameters(m, c, k, t_max, dt)

\* C7: with Kp = 0 and valid m, c, k every control sample and every
\* position sample is 0 throughout the run, whatever the target.
C7_ZeroGainStaysAtRest ==
    (InSim /\ ValidParameters(m, c, k, t_max, dt) /\ Kp[1] = 0) =>
        \A j \in DOMAIN x : x[j] = 0 /\ u[j] = 0

\* a valid run of at least four samples with Kp = 0 and a target other
\* than 0 has returned
C7_Witness ==
    /\ pc = "sim_returned" /\ ValidParameters(m, c, k, t_max, dt)
    /\ Kp[1] = 0 /\ x_target # 0 /\ n_steps >= 4

\* C9: every completed step j computed u[j] = Kp * (x_target - x[j]),
\* a = (-c * v[j] - k * x[j] + u[j]) / m, v[j+1] = v[j] + a * dt and
\* x[j+1] = x[j] + v[j] * dt with the velocity from before the update;
\* hence x[1] = 0.
C9_EulerStepOrder ==
    InSim =>
        /\ \A j \in 0 .. i - 1 :
              LET uj == RoundDiv((x_target - x[j]) * Kp[1], Kp[2])
                  aj == DivQ(- MulQ(v[j], c) - MulQ(x[j], k) + uj, m)
              IN  /\ u[j] = uj
                  /\ v[j + 1] = v[j] + MulQ(aj, dt)
                  /\ x[j + 1] = x[j] + MulQ(v[j], dt)
        /\ (i >= 1 => x[1] = 0)

\* a run of at least three steps in which the velocity before and after the
\* second update differ and both are non-zero
C9_Witness ==
    /\ pc = "sim_returned" /\ i >= 3
    /\ v[1] # 0 /\ v[2] # 0 /\ v[2] # v[1] /\ x[2] # 0

\* C10: the loop has written the control sequence only below its counter,
\* which never passes n - 1: every sample from the counter on, and so the
\* trailing sample u[n-1] of the returned sequence, is still the initial 0.
C10_TrailingControlZero ==
    InSim =>
        /\ \A j \in DOMAIN u : j >= i => u[j] = 0
        /\ (n_steps >= 1 => i <= n_steps - 1 /\ u[n_steps - 1] = 0)

\* a returned run of at least three samples whose gain is non-zero, whose
\* final position is off target and whose last written control is non-zero
C10_Witness ==
    /\ pc = "sim_returned" /\ n_steps >= 3
    /\ Kp[1] # 0 /\ x[n_steps - 1] # x_target /\ u[n_steps - 2] # 0

----------------------------------------------------------------------------
(* Properties of get_metrics, checked under SpecMetrics *)

\* C3: analyze with target = 0 never returns an (overshoot, settling time)
\* pair: whenever get_metrics has returned, the target was not 0.
C3_ZeroTargetNeverReturns ==
    pc = "metrics_returned" => target # 0

\* C4: for target # 0 the returned settling time is t[j] for the greatest
\* index j of the whole trajectory, index 0 included, whose distance from
\* the target exceeds 5% of the target, and t[last] when there is none.
C4_SettlingTimeWholeTrajectory ==
    (pc = "metrics_returned" /\ target # 0) =>
        LET last == Len0(x_arr) - 1
            out  == {j \in 0 .. last :
                        Abs(x_arr[j] - target) > MulQ(target, <<5, 100>>)}
        IN  settling_time =
                IF out = {} THEN t_arr[last]
                ELSE t_arr[CHOOSE j \in out : \A h \in out : j >= h]

\* C8: for target # 0 of either sign the returned overshoot is >= 0: it is
\* (max(x) - target) / target * 100 when that ratio is positive, and
\* exactly 0 otherwise.
C8_OvershootNonNegative ==
    (pc = "metrics_returned" /\ target # 0) =>
        LET peak == CHOOSE a \in {x_arr[j] : j \in DOMAIN x_arr} :
                        \A j \in DOMAIN x_arr : a >= x_arr[j]
            diff == peak - target
        IN  /\ overshoot[2] # 0
            /\ overshoot[1] * Sign(overshoot[2]) >= 0
            /\ IF Sign(diff) * Sign(target) > 0
                 THEN <<Abs(overshoot[1]), Abs(overshoot[2])>>
                          = <<100 * Abs(diff), Abs(target)>>
                 ELSE overshoot[1] = 0

\* a negative target with a peak above it: the ratio is negative and the
\* clamp acts
C8_Witness ==
    /\ pc = "metrics_returned" /\ target < 0
    /\ \E j \in DOMAIN x_arr : x_arr[j] > target
    /\ \E j \in DOMAIN x_arr : x_arr[j] < target
    /\ overshoot[1] = 0

----------------------------------------------------------------------------
(* The reference run, checked under SpecApp *)

\* C5: on the reference run (target 1.0, m = 2, c = 0.8, k = 10, Kp = 10,
\* t_max = 15, dt = 0.01) the final position lies within 5% of the target
\* and the settling time get_metrics reports is strictly less than t_max.
C5_ReferenceRunSettles ==
    (pc = "metrics_returned" /\ Kp = <<10, 1>>) =>
        /\ Abs(x[n_steps - 1] - x_target) <= MulQ(x_target, <<5, 100>>)
        /\ RatLtInt(settling_time, t_max)

----------------------------------------------------------------------------
(* Properties of holmes_feedback, checked under SpecFeedback *)

\* C6: the finished list is, in this order, the error finding iff
\* overshoot > 30, the sluggish warning iff overshoot <= 30 and settling
\* time > 10, the budget warning iff cost > 500, and the success finding iff
\* none of the three fired and overshoot < 15; so error and sluggish never
\* co-occur and success is the sole finding when present.
C6_FeedbackRules ==
    pc = "fb_done" =>
        LET severe   == os_true[1] > 30 * os_true[2]
            sluggish == os_true[1] <= 30 * os_true[2]
                          /\ ts_true[1] > 10 * ts_true[2]
            budget   == u_cost > 500 * Scale
            success  == ~ severe /\ ~ sluggish /\ ~ budget
                          /\ os_true[1] < 15 * os_true[2]
            Opt(b, e) == IF b THEN <<e>> ELSE <<>>
        IN  /\ holmes_feedback = Opt(severe, Turbulence) \o Opt(sluggish, CarStuck)
                                  \o Opt(budget, Budget) \o Opt(success, Elegant)
            /\ ~ (\E a, b \in DOMAIN holmes_feedback :
                     holmes_feedback[a] = Turbulence /\ holmes_feedback[b] = CarStuck)
            /\ ((\E a \in DOMAIN holmes_feedback : holmes_feedback[a] = Elegant)
                    => holmes_feedback = <<Elegant>>)

\* the classifier has finished on (35, 2, 100) with exactly the error finding
C6_Witness ==
    /\ pc = "fb_done"
    /\ os_true = <<35, 1>> /\ ts_true = <<2, 1>> /\ u_cost = 100 * Scale
    /\ holmes_feedback = <<Turbulence>>

====
